---- MODULE Spec2Model ----
(***************************************************************************)
(* Metro train simulation engine (src/App.tsx, second App component,       *)
(* lines 393-929, with the constants and types of src/unnamed/part_000).   *)
(*                                                                         *)
(* The state is the mutable simulation ref (simRef.current) plus the       *)
(* status message shown to the user.  One step is either one animation     *)
(* frame (animate -> updateSimulation -> runRegularSimulation /            *)
(* runLongSimulation) or one input of the control bar.                     *)
(*                                                                         *)
(* Time.  The code keeps the frame timestamp `time` and sim.waitStartTime  *)
(* and only ever reads their difference, `elapsed = time - waitStartTime`, *)
(* while the vehicle is docked.  The model keeps that difference in the    *)
(* variable `elapsed`; it grows with every frame, played or paused,        *)
(* because requestAnimationFrame timestamps do.  While the vehicle is not  *)
(* docked waitStartTime is dead (docking overwrites it before it is read), *)
(* and the model holds elapsed at 0.                                       *)
(*                                                                         *)
(* Variables marked "history" are not program state: they record what      *)
(* happened (who boarded where, which phases took effect) so that          *)
(* properties about the past can be stated.                                *)
(***************************************************************************)
EXTENDS Integers, Sequences, FiniteSets, TLC

\* ---------------------------------------------------------------- geometry
PIXELS_PER_CAR == 34
CAR_GAP == 3
TRAIN_COUPLER_GAP == 8
STATION_PADDING == 1
TRACK_LENGTH == 1800

getBlockWidth(capacity) == (capacity * PIXELS_PER_CAR) + ((capacity - 1) * CAR_GAP)

BLOCK_WIDTH_3 == getBlockWidth(3)
BLOCK_WIDTH_4 == getBlockWidth(4)
BLOCK_WIDTH_7 == getBlockWidth(7)

TRAIN_ACTIVE_SEGMENT_WIDTH == BLOCK_WIDTH_3 + TRAIN_COUPLER_GAP + BLOCK_WIDTH_4

STATION_PIXEL_WIDTH == TRAIN_ACTIVE_SEGMENT_WIDTH + (STATION_PADDING * 2)

getTrainEffectiveLength(mode) ==
    IF mode = "regular"
    THEN BLOCK_WIDTH_7
    ELSE BLOCK_WIDTH_3 + TRAIN_COUPLER_GAP + BLOCK_WIDTH_4 + TRAIN_COUPLER_GAP + BLOCK_WIDTH_3

\* ------------------------------------------------------------- static data
TRAIN_BLOCKS ==
    << [id |-> 1, capacity |-> 3, color |-> "rose"],
       [id |-> 3, capacity |-> 4, color |-> "amber"],
       [id |-> 2, capacity |-> 3, color |-> "blue"] >>

REGULAR_TRAIN_BLOCKS ==
    << [id |-> 99, capacity |-> 7, color |-> "amber"] >>

STATIONS ==
    << [id |-> 1, alignment |-> "rear", positionX |-> 150],
       [id |-> 2, alignment |-> "all",  positionX |-> 600],
       [id |-> 3, alignment |-> "rear", positionX |-> 1050],
       [id |-> 4, alignment |-> "all",  positionX |-> 1500] >>

PASSENGER_DEMAND ==
    << [originId |-> 1, destId |-> 2, carloads |-> 2, assignedBlockId |-> 3],
       [originId |-> 1, destId |-> 3, carloads |-> 3, assignedBlockId |-> 1],
       [originId |-> 1, destId |-> 4, carloads |-> 2, assignedBlockId |-> 3],
       [originId |-> 2, destId |-> 3, carloads |-> 2, assignedBlockId |-> 3],
       [originId |-> 2, destId |-> 4, carloads |-> 3, assignedBlockId |-> 2],
       [originId |-> 3, destId |-> 4, carloads |-> 2, assignedBlockId |-> 3] >>

\* Variant: the ranges of block 1 and block 2 are exchanged.
getBlockIndices_Exchanged(blockId) ==
    IF blockId = 1 THEN <<7, 8, 9>>
    ELSE IF blockId = 3 THEN <<3, 4, 5, 6>>
    ELSE IF blockId = 2 THEN <<0, 1, 2>>
    ELSE IF blockId = 99 THEN <<0, 1, 2, 3, 4, 5, 6>>
    ELSE <<>>

getBlockIndices(blockId) ==
    IF blockId = 1 THEN <<0, 1, 2>>
    ELSE IF blockId = 3 THEN <<3, 4, 5, 6>>
    ELSE IF blockId = 2 THEN <<7, 8, 9>>
    ELSE IF blockId = 99 THEN <<0, 1, 2, 3, 4, 5, 6>>
    ELSE <<>>

\* ------------------------------------------------------------ model bounds
\* Frame spacings (ms) a frame may arrive after the previous one: a short
\* frame, a late frame and a frame after the tab was in the background.
Deltas == {600, 1800, 6000}

\* elapsed saturates here; beyond 3000/1 + 1000 every threshold of every
\* speed has been passed, so larger values behave alike.
ElapsedCap == 4200

Speeds == {1, 2, 4}
Modes == {"long", "regular"}

\* ----------------------------------------------------------------- helpers
\* JavaScript null for a seat slot / a station id.
null == [destId |-> 0, color |-> "null"]
NoStation == 0

Min(a, b) == IF a < b THEN a ELSE b

\* A status message: its text and the number it interpolates (a station id
\* or a count of carloads; 0 when it has none).
Msg(text, n) == [text |-> text, n |-> n]

Includes(seq, x) == \E k \in 1..Len(seq) : seq[k] = x

StationById(id) == CHOOSE s \in {STATIONS[k] : k \in 1..Len(STATIONS)} : s.id = id

\* Variant: always ten slots, whatever the mode.
EmptyOccupancy_Ten(mode) == [i \in 0..9 |-> null]

\* Array(trainCapacity).fill(null), indexed from 0 as in the source.
EmptyOccupancy(mode) ==
    [i \in 0..((IF mode = "regular" THEN 7 ELSE 10) - 1) |-> null]

\* ------------------------------------------------------------------- state
VARIABLES
    trainX,             \* sim.trainX
    isPlaying,          \* sim.isPlaying
    speedMultiplier,    \* sim.speedMultiplier
    isWaiting,          \* sim.isWaiting
    elapsed,            \* time - sim.waitStartTime at the latest frame
    lastStationId,      \* sim.lastStationId (NoStation for null)
    boardingProcessed,  \* sim.boardingProcessed
    alightingProcessed, \* sim.alightingProcessed
    trainMode,          \* sim.trainMode
    waitingLoads,       \* sim.waitingLoads: station id -> list of groups
    carOccupancy,       \* sim.carOccupancy: index -> null or passenger
    activeStationId,    \* sim.activeStationId (NoStation for null)
    doorsOpen,          \* sim.doorsOpen
    activeBlockIds,     \* sim.activeBlockIds
    message,            \* the status message on display
    demandSeed,         \* PASSENGER_DEMAND as the module was loaded with;
                        \* no statement of the program assigns to it
    ledgerPublished,    \* the group records of sim.waitingLoads are the
                        \* ones last handed to setWaitingLoads
    boardedFrom,        \* history: index -> station the occupant boarded at
    delivered,          \* history: demand index -> alighted at destination
    visited,            \* history: stations docked at in the current pass
    phaseLog,           \* history: dwell phases that took effect this stop
    dwellPlayed,        \* history: dwell time spent playing this stop
    dwellSpeedFixed,    \* history: speed unchanged since docking
    passBegan           \* history: what began this pass and from which
                        \* situation; forgotten at the next frame or press

simVars == << trainX, isPlaying, speedMultiplier, isWaiting, elapsed,
              lastStationId, boardingProcessed, alightingProcessed, trainMode,
              waitingLoads, carOccupancy, activeStationId, doorsOpen,
              activeBlockIds, message, demandSeed, ledgerPublished >>

histVars == << boardedFrom, delivered, visited, phaseLog, dwellPlayed,
               dwellSpeedFixed, passBegan >>

vars == << simVars, histVars >>

\* ---------------------------------------------------------- initialization
\* The fold of initializePassengers over PASSENGER_DEMAND: the groups of one
\* origin, in seed order.
RECURSIVE SeedGroups(_, _, _)
SeedGroups(mode, origin, k) ==
    IF k > Len(demandSeed) THEN <<>>
    ELSE LET demand == demandSeed[k]
             effectiveBlockId == IF mode = "regular" THEN 99 ELSE demand.assignedBlockId
             found == {b \in 1..Len(TRAIN_BLOCKS) : TRAIN_BLOCKS[b].id = effectiveBlockId}
             color == IF mode = "regular" THEN REGULAR_TRAIN_BLOCKS[1].color
                      ELSE IF found # {} THEN TRAIN_BLOCKS[CHOOSE b \in found : TRUE].color
                      ELSE "gray"
             rest == SeedGroups(mode, origin, k + 1)
         IN  IF demand.originId = origin
             THEN << [destId |-> demand.destId, blockId |-> effectiveBlockId,
                      count |-> demand.carloads, color |-> color] >> \o rest
             ELSE rest

SeedOrigins == {demandSeed[k].originId : k \in 1..Len(demandSeed)}

\* Variant: unshift instead of push, each origin's groups in reverse order.
SeedLedger_Unshift(mode) ==
    [o \in SeedOrigins |->
        [j \in 1..Len(SeedGroups(mode, o, 1)) |->
            SeedGroups(mode, o, 1)[Len(SeedGroups(mode, o, 1)) + 1 - j]]]

\* const initialWaiting = {}; PASSENGER_DEMAND.forEach(...)
SeedLedger(mode) == [o \in SeedOrigins |-> SeedGroups(mode, o, 1)]

NoneDelivered == [g \in 1..Len(demandSeed) |-> 0]

\* history: passBegan values.
Began(how) ==
    [how |-> how, docked |-> isWaiting, doors |-> doorsOpen,
     aboard |-> Cardinality({i \in DOMAIN carOccupancy : carOccupancy[i] # null}),
     waiting |-> \E o \in DOMAIN waitingLoads : waitingLoads[o] # <<>>]
NotBegun == [how |-> "", docked |-> FALSE, doors |-> FALSE, aboard |-> 0, waiting |-> FALSE]

\* Variant: the ledger is re-seeded even for a train-only reset.
InitialWaiting_Reseed(mode, resetTrainOnly) == SeedLedger(mode)

\* Variant: the ledger is never re-seeded.
InitialWaiting_Keep(mode, resetTrainOnly) == waitingLoads

\* let initialWaiting = sim.waitingLoads; if (!resetTrainOnly) { ...fold... }
InitialWaiting(mode, resetTrainOnly) ==
    IF resetTrainOnly THEN waitingLoads ELSE SeedLedger(mode)

\* simRef.current.waitingLoads = cloneJSON(initialWaiting);
\* setWaitingLoads(initialWaiting): the renderer gets the fold's records and
\* the engine a copy of them; a train-only reset touches neither.
PublishedAfterInit(resetTrainOnly) ==
    IF resetTrainOnly THEN ledgerPublished ELSE FALSE

\* initializePassengers(mode, resetTrainOnly)
initializePassengers(mode, resetTrainOnly) ==
    /\ waitingLoads' = InitialWaiting(mode, resetTrainOnly)
    /\ ledgerPublished' = PublishedAfterInit(resetTrainOnly)
    /\ carOccupancy' = EmptyOccupancy(mode)
    /\ trainX' = 0
    /\ lastStationId' = NoStation
    /\ isWaiting' = FALSE
    /\ activeStationId' = NoStation
    /\ doorsOpen' = FALSE
    /\ activeBlockIds' = <<>>
    /\ message' = IF resetTrainOnly THEN Msg("Train 2 Starting...", 0) ELSE Msg("Ready to start.", 0)
    /\ trainMode' = mode
    /\ elapsed' = 0
    /\ UNCHANGED << boardingProcessed, alightingProcessed, demandSeed >>
    /\ boardedFrom' = [i \in DOMAIN EmptyOccupancy(mode) |-> NoStation]
    /\ delivered' = IF resetTrainOnly THEN delivered ELSE NoneDelivered
    /\ visited' = <<>>
    /\ phaseLog' = <<>>
    /\ dwellPlayed' = 0
    /\ dwellSpeedFixed' = TRUE

\* State after mount: useState/useRef initial values, then the mount effect
\* initializePassengers('long').
Mounted ==
    /\ trainX = 0
    /\ isPlaying = FALSE
    /\ speedMultiplier = 1
    /\ isWaiting = FALSE
    /\ elapsed = 0
    /\ lastStationId = NoStation
    /\ boardingProcessed = FALSE
    /\ alightingProcessed = FALSE
    /\ trainMode = "long"
    /\ waitingLoads = SeedLedger("long")
    /\ ledgerPublished = PublishedAfterInit(FALSE)
    /\ carOccupancy = EmptyOccupancy("long")
    /\ activeStationId = NoStation
    /\ doorsOpen = FALSE
    /\ activeBlockIds = <<>>
    /\ message = Msg("Ready to start.", 0)
    /\ boardedFrom = [i \in DOMAIN EmptyOccupancy("long") |-> NoStation]
    /\ delivered = NoneDelivered
    /\ visited = <<>>
    /\ phaseLog = <<>>
    /\ dwellPlayed = 0
    /\ dwellSpeedFixed = TRUE
    /\ passBegan = [NotBegun EXCEPT !.how = "mount"]

Init ==
    /\ demandSeed = PASSENGER_DEMAND
    /\ Mounted

\* ------------------------------------------------------------ control bar
\* onPlayPause: setIsPlaying(p => !p), mirrored into sim.isPlaying.
PlayPause ==
    /\ isPlaying' = ~isPlaying
    /\ passBegan' = NotBegun
    /\ UNCHANGED << trainX, speedMultiplier, isWaiting, elapsed, lastStationId,
                    boardingProcessed, alightingProcessed, trainMode,
                    waitingLoads, carOccupancy, activeStationId, doorsOpen,
                    activeBlockIds, message, demandSeed, ledgerPublished, boardedFrom, delivered,
                    visited, phaseLog, dwellPlayed, dwellSpeedFixed >>

\* onSpeedChange(s), mirrored into sim.speedMultiplier.
SetSpeed(s) ==
    /\ s # speedMultiplier
    /\ speedMultiplier' = s
    /\ dwellSpeedFixed' = IF isWaiting THEN FALSE ELSE dwellSpeedFixed
    /\ passBegan' = NotBegun
    /\ UNCHANGED << trainX, isPlaying, isWaiting, elapsed, lastStationId,
                    boardingProcessed, alightingProcessed, trainMode,
                    waitingLoads, carOccupancy, activeStationId, doorsOpen,
                    activeBlockIds, message, demandSeed, ledgerPublished, boardedFrom, delivered,
                    visited, phaseLog, dwellPlayed >>

\* onTrainModeChange(m): the effect on [trainMode] runs initializePassengers.
SetTrainMode(m) ==
    /\ m # trainMode
    /\ initializePassengers(m, FALSE)
    /\ passBegan' = Began("mode")
    /\ UNCHANGED << isPlaying, speedMultiplier >>

\* Variant: reset re-initializes but leaves the simulation playing.
handleReset_KeepsPlaying ==
    /\ initializePassengers(trainMode, FALSE)
    /\ passBegan' = Began("reset")
    /\ UNCHANGED << isPlaying, speedMultiplier >>

\* handleReset
handleReset ==
    /\ isPlaying' = FALSE
    /\ initializePassengers(trainMode, FALSE)
    /\ passBegan' = Began("reset")
    /\ UNCHANGED speedMultiplier

\* ------------------------------------------------------------- dwell phases
\* The station-ops branch of runRegularSimulation / runLongSimulation, as
\* functions of the state at the start of the frame and of
\* e = time - sim.waitStartTime.  The blocks run in source order inside one
\* frame, each on the result of the one before.
waitDuration == 3000 \div speedMultiplier

\* "Doors" block.
DoorsOpenFires(e) == e > 500 /\ e < waitDuration /\ ~doorsOpen

\* Variant: 'all' platforms open the rear pair like 'rear' ones.
DoorBlocks_AllAsRear(mode, station) ==
    IF mode = "regular" THEN <<99>>
    ELSE IF station.alignment \in {"rear", "all"} THEN <<1, 3>>
    ELSE <<2, 3>>

\* sim.activeBlockIds = [...] of the "Doors" block.
DoorBlocks(mode, station) ==
    IF mode = "regular" THEN <<99>>
    ELSE IF station.alignment = "rear" THEN <<1, 3>>
    ELSE <<2, 3>>

\* Variant: the doors open without the open set being written.
BlocksAfterDoors_Unset(e) == activeBlockIds

BlocksAfterDoors(e) ==
    IF DoorsOpenFires(e)
    THEN DoorBlocks(trainMode, StationById(activeStationId))
    ELSE activeBlockIds

DoorsAfterOpen(e) == doorsOpen \/ DoorsOpenFires(e)

\* "Alighting" block.
AlightingFires(e) == e > 1000 /\ ~alightingProcessed

\* Variant: the mid segment ends one slot early.
BlockOfIndex_OffByOne(i) == IF i < 3 THEN 1 ELSE IF i < 6 THEN 3 ELSE 2

\* Map index to block (runLongSimulation).
BlockOfIndex(i) == IF i < 3 THEN 1 ELSE IF i < 7 THEN 3 ELSE 2

\* Variant: the open-segment test dropped, as in runRegularSimulation.
AlightsLong_AnyDoor(occ, i, currentStationId, active) ==
    /\ occ[i] # null
    /\ occ[i].destId = currentStationId

AlightsLong(occ, i, currentStationId, active) ==
    /\ occ[i] # null
    /\ occ[i].destId = currentStationId
    /\ Includes(active, BlockOfIndex(i))

\* Variant: the destination test dropped, every occupant gets off.
AlightsRegular_AnyDest(occ, i, currentStationId) ==
    occ[i] # null

AlightsRegular(occ, i, currentStationId) ==
    /\ occ[i] # null
    /\ occ[i].destId = currentStationId

\* The indices the Alighting block clears in this frame.
AlightedIndices(e) ==
    IF ~AlightingFires(e) THEN {}
    ELSE IF trainMode = "regular"
         THEN {i \in DOMAIN carOccupancy : AlightsRegular(carOccupancy, i, activeStationId)}
         ELSE {i \in DOMAIN carOccupancy :
                  AlightsLong(carOccupancy, i, activeStationId, BlocksAfterDoors(e))}

OccupancyAfterAlighting(e) ==
    [i \in DOMAIN carOccupancy |->
        IF i \in AlightedIndices(e) THEN null ELSE carOccupancy[i]]

\* "Boarding" block.
BoardingFires(e) == e > 1500 /\ ~boardingProcessed

\* Variant: a boarder takes the slot whether or not somebody sits in it.
SlotFree_Always(occ, idx) == TRUE

\* nextOccupancy[idx] === null
SlotFree(occ, idx) == occ[idx] = null

\* for (const idx of blockIndices): fill empty slots while the group has
\* passengers left.  r = [occ, count, boarded], taken by value.
RECURSIVE FillSlots(_, _, _, _)
FillSlots(blockIndices, k, group, r0) ==
    LET Try(r) ==
          IF k > Len(blockIndices) THEN r
          ELSE LET idx == blockIndices[k]
               IN  IF idx < Cardinality(DOMAIN r.occ) /\ r.count > 0 /\ SlotFree(r.occ, idx)
                   THEN FillSlots(blockIndices, k + 1, group,
                                  [occ |-> [r.occ EXCEPT ![idx] =
                                               [destId |-> group.destId, color |-> group.color]],
                                   count |-> r.count - 1,
                                   boarded |-> r.boarded + 1])
                   ELSE FillSlots(blockIndices, k + 1, group, r)
    IN  CHOOSE v \in {Try(r) : r \in {r0}} : TRUE

\* Whether the Boarding block lets a group try to board.
BoardsGroupLong(group, active) == Includes(active, group.blockId)
BoardsGroupRegular(group) == group.blockId = 99

\* Variant: the slots of a segment are tried from the highest index down.
BlockIndicesFor_Descending(mode, group) ==
    LET up == IF mode = "regular" THEN <<0, 1, 2, 3, 4, 5, 6>>
              ELSE getBlockIndices(group.blockId)
    IN  [k \in 1..Len(up) |-> up[Len(up) + 1 - k]]

\* const blockIndices = ...
BlockIndicesFor(mode, group) ==
    IF mode = "regular" THEN <<0, 1, 2, 3, 4, 5, 6>> ELSE getBlockIndices(group.blockId)

\* Variant: every group that tried to board is pushed back, empty or not.
KeepsGroup_Always(count) == TRUE

\* if (group.count > 0) remainingGroups.push(group)
KeepsGroup(count) == count > 0

\* stationGroups.forEach(...): b = [occ, remaining, boardedTotal], taken by
\* value.
RECURSIVE BoardGroups(_, _, _, _, _)
BoardGroups(mode, stationGroups, k, active, b0) ==
    LET Serve(b) ==
          IF k > Len(stationGroups) THEN b
          ELSE LET group == stationGroups[k]
                   tries == IF mode = "regular" THEN BoardsGroupRegular(group)
                            ELSE BoardsGroupLong(group, active)
               IN  IF ~tries
                   THEN BoardGroups(mode, stationGroups, k + 1, active,
                                    [b EXCEPT !.remaining = Append(@, group)])
                   ELSE LET r == FillSlots(BlockIndicesFor(mode, group), 1, group,
                                           [occ |-> b.occ, count |-> group.count, boarded |-> 0])
                        IN  BoardGroups(mode, stationGroups, k + 1, active,
                               [occ |-> r.occ,
                                remaining |-> IF KeepsGroup(r.count)
                                              THEN Append(b.remaining, [group EXCEPT !.count = r.count])
                                              ELSE b.remaining,
                                boardedTotal |-> b.boardedTotal + r.boarded])
    IN  CHOOSE v \in {Serve(b) : b \in {b0}} : TRUE

\* sim.waitingLoads[currentStationId] || []
GroupsAt(ledger, stationId) ==
    IF stationId \in DOMAIN ledger THEN ledger[stationId] ELSE <<>>

BoardingResult(e) ==
    BoardGroups(trainMode, GroupsAt(waitingLoads, activeStationId), 1, BlocksAfterDoors(e),
                [occ |-> OccupancyAfterAlighting(e), remaining |-> <<>>, boardedTotal |-> 0])

\* { ...sim.waitingLoads, [currentStationId]: remainingGroups }
LedgerWith(ledger, stationId, groups) ==
    [o \in DOMAIN ledger \cup {stationId} |-> IF o = stationId THEN groups ELSE ledger[o]]

OccupancyAfterBoarding(e) ==
    IF BoardingFires(e) THEN BoardingResult(e).occ ELSE OccupancyAfterAlighting(e)

\* Variant: the remaining groups are never written back to the ledger.
LedgerAfterBoarding_Stale(e) == waitingLoads

LedgerAfterBoarding(e) ==
    IF BoardingFires(e)
    THEN LedgerWith(waitingLoads, activeStationId, BoardingResult(e).remaining)
    ELSE waitingLoads

\* "Departure" block.
DoorsClosingFires(e) == e > waitDuration

\* Variant: the vehicle leaves as soon as the doors close.
DepartedFires_NoDelay(e) == e > waitDuration

\* if (elapsed > waitDuration + 1000), inside the "Departure" block.
DepartedFires(e) == e > waitDuration + 1000

\* if (boardedTotal > 0) setMessage(`Boarding: ${boardedTotal} carloads.`):
\* the only message of the Boarding block.
BoardingSetsMessage(e) == BoardingFires(e) /\ BoardingResult(e).boardedTotal > 0
BoardingMessage(e) == Msg("Boarding", BoardingResult(e).boardedTotal)

\* The message left on display by the blocks that ran, last one winning.
MessageAfterDwell(e) ==
    IF DepartedFires(e) THEN Msg("Departing...", 0)
    ELSE IF DoorsClosingFires(e) THEN Msg("Doors closing...", 0)
    ELSE IF BoardingSetsMessage(e) THEN BoardingMessage(e)
    ELSE IF Cardinality(AlightedIndices(e)) > 0
         THEN Msg("Alighting", Cardinality(AlightedIndices(e)))
    ELSE IF DoorsOpenFires(e) THEN Msg("Doors Open", activeStationId)
    ELSE message

\* history: the phases that change something in this frame, in source order.
PhasesOf(e) ==
    (IF DoorsOpenFires(e) THEN <<"DoorsOpen">> ELSE <<>>)
    \o (IF AlightingFires(e) THEN <<"Alighting">> ELSE <<>>)
    \o (IF BoardingFires(e) THEN <<"Boarding">> ELSE <<>>)
    \o (IF DoorsClosingFires(e) /\ DoorsAfterOpen(e) THEN <<"DoorsClosing">> ELSE <<>>)
    \o (IF DepartedFires(e) THEN <<"Departed">> ELSE <<>>)

\* history: the demand group a passenger belongs to.
DemandIndex(origin, dest) ==
    CHOOSE g \in 1..Len(demandSeed) :
        demandSeed[g].originId = origin /\ demandSeed[g].destId = dest

\* ------------------------------------------------------------------ frames
\* Variant: updateSimulation without its isPlaying test, a paused frame
\* moves an undocked vehicle along the track.
TickPaused_Runs(dt) ==
    /\ ~isPlaying
    /\ elapsed' = IF isWaiting THEN Min(elapsed + dt, ElapsedCap) ELSE 0
    /\ trainX' = IF ~isWaiting /\ trainX + (dt \div 10) * speedMultiplier <= TRACK_LENGTH
                 THEN trainX + (dt \div 10) * speedMultiplier
                 ELSE trainX
    /\ UNCHANGED << isPlaying, speedMultiplier, isWaiting, lastStationId,
                    boardingProcessed, alightingProcessed, trainMode,
                    waitingLoads, carOccupancy, activeStationId, doorsOpen,
                    activeBlockIds, message, demandSeed, ledgerPublished, boardedFrom, delivered,
                    visited, phaseLog, dwellPlayed, dwellSpeedFixed >>
    /\ passBegan' = NotBegun

\* animate(time) with the simulation paused: updateSimulation returns at
\* once; only the clock moves on.
TickPaused(dt) ==
    /\ ~isPlaying
    /\ elapsed' = IF isWaiting THEN Min(elapsed + dt, ElapsedCap) ELSE 0
    /\ UNCHANGED << trainX, isPlaying, speedMultiplier, isWaiting, lastStationId,
                    boardingProcessed, alightingProcessed, trainMode,
                    waitingLoads, carOccupancy, activeStationId, doorsOpen,
                    activeBlockIds, message, demandSeed, ledgerPublished, boardedFrom, delivered,
                    visited, phaseLog, dwellPlayed, dwellSpeedFixed >>
    /\ passBegan' = NotBegun

\* Variant: the station-ops branch without its return, the movement code
\* below it runs in the same frame.
PositionAfterDwell_FallThrough(dt) ==
    trainX + (dt \div 10) * speedMultiplier

\* return; at the end of the station-ops branch: the movement code is not
\* reached and sim.trainX stays.
PositionAfterDwell(dt) == trainX

\* sim.waitingLoads = { ...sim.waitingLoads, [currentStationId]:
\* remainingGroups }; setWaitingLoads(sim.waitingLoads): the object handed to
\* the renderer is the engine's own, with the group records it holds.
PublishedAfterBoarding(e) == ledgerPublished \/ BoardingFires(e)

\* animate(time) while docked: the station-ops branch (both modes).
TickDwell(dt) ==
    /\ isPlaying
    /\ isWaiting
    /\ LET e == Min(elapsed + dt, ElapsedCap)
       IN  /\ elapsed' = IF DepartedFires(e) THEN 0 ELSE e
           /\ doorsOpen' = IF DoorsClosingFires(e) THEN FALSE ELSE DoorsAfterOpen(e)
           /\ activeBlockIds' = IF DepartedFires(e) THEN <<>> ELSE BlocksAfterDoors(e)
           /\ alightingProcessed' = (alightingProcessed \/ AlightingFires(e))
           /\ boardingProcessed' = (boardingProcessed \/ BoardingFires(e))
           /\ carOccupancy' = OccupancyAfterBoarding(e)
           /\ waitingLoads' = LedgerAfterBoarding(e)
           /\ ledgerPublished' = PublishedAfterBoarding(e)
           /\ isWaiting' = ~DepartedFires(e)
           /\ lastStationId' = IF DepartedFires(e) THEN activeStationId ELSE lastStationId
           /\ activeStationId' = IF DepartedFires(e) THEN NoStation ELSE activeStationId
           /\ message' = MessageAfterDwell(e)
           /\ boardedFrom' =
                 [i \in DOMAIN carOccupancy |->
                    IF OccupancyAfterBoarding(e)[i] = null THEN NoStation
                    ELSE IF OccupancyAfterAlighting(e)[i] = null THEN activeStationId
                    ELSE boardedFrom[i]]
           /\ delivered' =
                 [g \in DOMAIN delivered |->
                    delivered[g] + Cardinality({i \in AlightedIndices(e) :
                        /\ carOccupancy[i].destId = activeStationId
                        /\ DemandIndex(boardedFrom[i], carOccupancy[i].destId) = g})]
           /\ phaseLog' = phaseLog \o PhasesOf(e)
           /\ dwellPlayed' = Min(dwellPlayed + dt, ElapsedCap)
    /\ trainX' = PositionAfterDwell(dt)
    /\ passBegan' = NotBegun
    /\ UNCHANGED << isPlaying, speedMultiplier, trainMode, demandSeed,
                    visited, dwellSpeedFixed >>

\* ---------------------------------------------------------------- movement
\* Variant: the frame's time does not enter the step.
moveAmount_Still(dt) == 0

moveAmount(dt) == (dt \div 10) * speedMultiplier

\* Variant: 'all' platforms are left-aligned like 'rear' ones.
TargetX_AllAsRear(mode, station) ==
    IF mode = "regular" THEN station.positionX + STATION_PADDING
    ELSE IF station.alignment \in {"rear", "all"}
         THEN station.positionX + STATION_PADDING
    ELSE (station.positionX + STATION_PIXEL_WIDTH - STATION_PADDING)
             - getTrainEffectiveLength("long")

\* The stop target of a station in the loop over STATIONS.
TargetX(mode, station) ==
    IF mode = "regular" THEN station.positionX + STATION_PADDING
    ELSE IF station.alignment = "rear" THEN station.positionX + STATION_PADDING
    ELSE (station.positionX + STATION_PIXEL_WIDTH - STATION_PADDING)
             - getTrainEffectiveLength("long")

\* for (const station of STATIONS) ... break: the first station in list
\* order, other than the one just departed, whose target is crossed.
StopCandidates(nextX) ==
    {k \in 1..Len(STATIONS) :
        /\ STATIONS[k].id # lastStationId
        /\ trainX < TargetX(trainMode, STATIONS[k])
        /\ nextX >= TargetX(trainMode, STATIONS[k])}

shouldStop(nextX) == StopCandidates(nextX) # {}

\* Variant: the loop without its break, the last station crossed wins.
stopStation_NoBreak(nextX) ==
    STATIONS[CHOOSE k \in StopCandidates(nextX) : \A j \in StopCandidates(nextX) : k >= j]

stopStation(nextX) ==
    STATIONS[CHOOSE k \in StopCandidates(nextX) : \A j \in StopCandidates(nextX) : k <= j]

\* Variant: no snap, the vehicle stops where the frame carried it.
snapX_Overshoot(nextX) == nextX

snapX(nextX) == TargetX(trainMode, stopStation(nextX))

\* Movement frame that docks the vehicle.
TickDock(dt) ==
    /\ isPlaying
    /\ ~isWaiting
    /\ LET nextX == trainX + moveAmount(dt)
       IN  /\ shouldStop(nextX)
           /\ trainX' = snapX(nextX)
           /\ activeStationId' = stopStation(nextX).id
           /\ message' = Msg("Arriving", stopStation(nextX).id)
           /\ visited' = Append(visited, stopStation(nextX).id)
    /\ isWaiting' = TRUE
    /\ elapsed' = 0
    /\ boardingProcessed' = FALSE
    /\ alightingProcessed' = FALSE
    /\ phaseLog' = <<"Arrived">>
    /\ dwellPlayed' = 0
    /\ dwellSpeedFixed' = TRUE
    /\ passBegan' = NotBegun
    /\ UNCHANGED << isPlaying, speedMultiplier, lastStationId, trainMode,
                    waitingLoads, carOccupancy, doorsOpen, activeBlockIds,
                    demandSeed, ledgerPublished, boardedFrom, delivered >>

\* Variant: the end-of-track test compares against the far end of a
\* platform placed at the end of the track.
BeyondTrack_PastPlatform(nextX) == nextX > TRACK_LENGTH + STATION_PIXEL_WIDTH

\* if (nextX > TRACK_LENGTH)
BeyondTrack(nextX) == nextX > TRACK_LENGTH

\* Movement frame that adopts nextX.
TickAdvance(dt) ==
    /\ isPlaying
    /\ ~isWaiting
    /\ LET nextX == trainX + moveAmount(dt)
       IN  /\ ~shouldStop(nextX)
           /\ ~BeyondTrack(nextX)
           /\ trainX' = nextX
    /\ phaseLog' = <<>>
    /\ passBegan' = NotBegun
    /\ UNCHANGED << isPlaying, speedMultiplier, isWaiting, elapsed, lastStationId,
                    boardingProcessed, alightingProcessed, trainMode,
                    waitingLoads, carOccupancy, activeStationId, doorsOpen,
                    activeBlockIds, message, demandSeed, ledgerPublished, boardedFrom, delivered,
                    visited, dwellPlayed, dwellSpeedFixed >>

\* Variant: the test looks for a station entry, not for a non-empty list.
hasWaiting_AnyEntry == DOMAIN waitingLoads # {}

\* Object.values(sim.waitingLoads).some(groups => groups.length > 0)
hasWaiting == \E o \in DOMAIN waitingLoads : Len(waitingLoads[o]) > 0

\* Movement frame that runs off the track.
RouteEnds(dt) ==
    /\ isPlaying
    /\ ~isWaiting
    /\ ~shouldStop(trainX + moveAmount(dt))
    /\ BeyondTrack(trainX + moveAmount(dt))

\* Long mode: "Route Complete. Resetting..."
TickRouteComplete(dt) ==
    /\ trainMode = "long"
    /\ RouteEnds(dt)
    /\ initializePassengers("long", FALSE)
    /\ passBegan' = Began("complete")
    /\ UNCHANGED << isPlaying, speedMultiplier >>

\* Regular mode, someone still waiting: "Looping Train..."
TickLoop(dt) ==
    /\ trainMode = "regular"
    /\ RouteEnds(dt)
    /\ hasWaiting
    /\ initializePassengers("regular", TRUE)
    /\ passBegan' = Began("loop")
    /\ UNCHANGED << isPlaying, speedMultiplier >>

\* Regular mode, nobody waiting: "Resetting..."
TickRegularReset(dt) ==
    /\ trainMode = "regular"
    /\ RouteEnds(dt)
    /\ ~hasWaiting
    /\ initializePassengers("regular", FALSE)
    /\ passBegan' = Began("regularReset")
    /\ UNCHANGED << isPlaying, speedMultiplier >>

Next ==
    \/ PlayPause
    \/ \E s \in Speeds : SetSpeed(s)
    \/ \E m \in Modes : SetTrainMode(m)
    \/ handleReset
    \/ \E dt \in Deltas : TickPaused(dt)
    \/ \E dt \in Deltas : TickDwell(dt)
    \/ \E dt \in Deltas : TickDock(dt)
    \/ \E dt \in Deltas : TickAdvance(dt)
    \/ \E dt \in Deltas : TickRouteComplete(dt)
    \/ \E dt \in Deltas : TickLoop(dt)
    \/ \E dt \in Deltas : TickRegularReset(dt)

Spec == Init /\ [][Next]_vars

\* ==================================================================== claims
\* Shared vocabulary of the properties below.
RECURSIVE SumCounts(_, _, _)
SumCounts(groups, k, dest) ==
    IF k > Len(groups) THEN 0
    ELSE (IF groups[k].destId = dest THEN groups[k].count ELSE 0)
         + SumCounts(groups, k + 1, dest)

\* Passengers of a demand group still waiting at its origin, in a ledger.
WaitingIn(ledger, origin, dest) ==
    IF origin \in DOMAIN ledger THEN SumCounts(ledger[origin], 1, dest) ELSE 0

\* Slots holding a passenger of a demand group.
OnboardOf(origin, dest) ==
    {i \in DOMAIN carOccupancy :
        /\ carOccupancy[i] # null
        /\ carOccupancy[i].destId = dest
        /\ boardedFrom[i] = origin}

\* The step is an animation frame of a playing simulation (every control-bar
\* input changes isPlaying, the speed or the mode of a playing simulation).
PlayedFrame ==
    /\ isPlaying /\ isPlaying'
    /\ speedMultiplier' = speedMultiplier
    /\ trainMode' = trainMode

\* The step is a route completion: a movement frame whose candidate position
\* runs off the track, i.e. a frame of an undocked vehicle that neither docks
\* nor adopts nextX.  (A frame whose candidate exceeds the track while a stop
\* target is still ahead docks there instead; that is C6.)
RouteEndFrame ==
    /\ PlayedFrame
    /\ ~isWaiting
    /\ \E dt \in Deltas : trainX + moveAmount(dt) > TRACK_LENGTH
    /\ ~ \E dt \in Deltas : TickDock(dt) \/ TickAdvance(dt)

\* C1 - Conservation: for every seeded demand group, waiting at its origin
\* + onboard + alighted at its destination = seeded carloads, in every
\* reachable state (the history restarts at each full initialization).
C1_Conservation ==
    \A g \in 1..Len(PASSENGER_DEMAND) :
        LET d == PASSENGER_DEMAND[g]
        IN  WaitingIn(waitingLoads, d.originId, d.destId)
              + Cardinality(OnboardOf(d.originId, d.destId))
              + delivered[g]
            = d.carloads

\* C1 witness: a second short-mode pass after a loop reset that kept the
\* ledger: a group has been delivered in full while a group of an earlier
\* origin and the same destination, left behind in the first pass, is aboard.
C1_Witness ==
    /\ trainMode = "regular"
    /\ \E g, h \in 1..Len(PASSENGER_DEMAND) :
          /\ PASSENGER_DEMAND[g].originId < PASSENGER_DEMAND[h].originId
          /\ PASSENGER_DEMAND[g].destId = PASSENGER_DEMAND[h].destId
          /\ delivered[h] = PASSENGER_DEMAND[h].carloads
          /\ delivered[g] = 0
          /\ OnboardOf(PASSENGER_DEMAND[g].originId, PASSENGER_DEMAND[g].destId) # {}

\* The segment that owns a slot index in a mode.
SegmentOf(mode, i) == IF mode = "regular" THEN 99 ELSE BlockOfIndex(i)

\* Slots filled by the Boarding block of a dwell frame with elapsed time e,
\* for passengers bound for dest.
FilledFor(e, dest) ==
    {i \in DOMAIN carOccupancy :
        /\ OccupancyAfterAlighting(e)[i] = null
        /\ carOccupancy'[i] # null
        /\ carOccupancy'[i].destId = dest}

\* C2 - No phantom boarding: a Boarding phase never decreases the count of a
\* waiting group whose segment is not open at that moment and never fills a
\* slot on its behalf (both modes, any frame timing).
C2_NoPhantomBoarding ==
    [][\A dt \in Deltas :
          LET e == Min(elapsed + dt, ElapsedCap)
              groups == GroupsAt(waitingLoads, activeStationId)
          IN  (TickDwell(dt) /\ BoardingFires(e)) =>
                 \A k \in 1..Len(groups) :
                    ~Includes(BlocksAfterDoors(e), groups[k].blockId) =>
                        /\ WaitingIn(waitingLoads', activeStationId, groups[k].destId)
                             = WaitingIn(waitingLoads, activeStationId, groups[k].destId)
                        /\ FilledFor(e, groups[k].destId) = {}]_vars

\* C3 - No phantom alighting: an Alighting phase never clears a slot whose
\* owning segment is not open at that moment (both modes, any frame timing).
C3_NoPhantomAlighting ==
    [][\A dt \in Deltas :
          LET e == Min(elapsed + dt, ElapsedCap)
          IN  (TickDwell(dt) /\ AlightingFires(e)) =>
                 \A i \in DOMAIN carOccupancy :
                    (carOccupancy[i] # null /\ OccupancyAfterAlighting(e)[i] = null) =>
                        Includes(BlocksAfterDoors(e), SegmentOf(trainMode, i))]_vars

PhaseOrder == <<"Arrived", "DoorsOpen", "Alighting", "Boarding", "DoorsClosing", "Departed">>

\* C4 - Monotonic phases: in a stop whose speed factor stayed fixed, by the
\* time Departed has fired the phases have taken effect in the order
\* Arrived, DoorsOpen, Alighting, Boarding, DoorsClosing, Departed, each once.
C4_MonotonicPhases ==
    (/\ phaseLog # <<>>
     /\ phaseLog[Len(phaseLog)] = "Departed"
     /\ dwellSpeedFixed)
    => phaseLog = PhaseOrder

\* C5 - Pause is additive: the dwell time the phases are measured against
\* excludes the time spent paused, i.e. equals the time spent playing since
\* the vehicle docked.
C5_PauseAdditive ==
    isWaiting => elapsed = dwellPlayed

\* The stations whose stop target is at or before position x, in track order.
RECURSIVE StationsUpTo(_, _, _)
StationsUpTo(mode, x, k) ==
    IF k > Len(STATIONS) THEN <<>>
    ELSE (IF TargetX(mode, STATIONS[k]) <= x THEN <<STATIONS[k].id>> ELSE <<>>)
         \o StationsUpTo(mode, x, k + 1)

\* C6 - No skipped stop: the stations docked at in the current pass are
\* exactly those whose stop target the vehicle has reached, in track order,
\* each once; when the candidate position runs off the track they are
\* 1, 2, 3, 4.
C6_NoSkippedStop ==
    /\ visited = StationsUpTo(trainMode, trainX, 1)
    /\ (\E dt \in Deltas : RouteEnds(dt)) => visited = <<1, 2, 3, 4>>

\* C6 witness: a pass that reached the end of the track with a frame long
\* enough to cross several stop targets pending at every stop.
C6_Witness ==
    /\ RouteEnds(6000)
    /\ visited = <<1, 2, 3, 4>>
    /\ speedMultiplier = 4

\* C7 - Snap exactness: a docked vehicle stands exactly on the stop target of
\* the docked station for the current mode, and stays there while docked.
C7_SnapExactness ==
    /\ [](isWaiting => trainX = TargetX(trainMode, StationById(activeStationId)))
    /\ [][(isWaiting /\ isWaiting') => trainX' = trainX]_vars

\* C7 witness: docked at a front-stopping station in long mode, some dwell
\* phases already done.
C7_Witness ==
    /\ isWaiting
    /\ trainMode = "long"
    /\ activeStationId = 2
    /\ trainX = 485
    /\ alightingProcessed

SomeoneWaiting ==
    \E o \in DOMAIN waitingLoads : \E k \in 1..Len(waitingLoads[o]) : TRUE

C10_ModeSwitchReinit ==
    [][trainMode' # trainMode =>
          /\ waitingLoads' = SeedLedger(trainMode')
          /\ \A o \in DOMAIN waitingLoads' : \A k \in 1..Len(waitingLoads'[o]) :
                (trainMode' = "regular") <=> (waitingLoads'[o][k].blockId = 99)
          /\ DOMAIN carOccupancy' = 0..((IF trainMode' = "regular" THEN 7 ELSE 10) - 1)
          /\ \A i \in DOMAIN carOccupancy' : carOccupancy'[i] = null
          /\ trainX' = 0
          /\ ~isWaiting'
          /\ activeStationId' = NoStation
          /\ lastStationId' = NoStation
          /\ ~doorsOpen'
          /\ activeBlockIds' = <<>>]_vars

\* C10 witness: the state a switch to short mode left when it came while the
\* long vehicle was docked with doors open and passengers aboard.
C10_Witness ==
    /\ passBegan.how = "mode"
    /\ passBegan.docked
    /\ passBegan.doors
    /\ passBegan.aboard > 0
    /\ trainMode = "regular"

\* ---------------------------------------------------------------------- C11
\* The steps that run a full initializePassengers(mode) after mount.
FullInits == {"mode", "reset", "complete", "regularReset"}

\* The demand groups of one origin, by their position in the seed.
SeedIndicesOf(origin) ==
    SelectSeq([k \in 1..Len(PASSENGER_DEMAND) |-> k],
              LAMBDA k : PASSENGER_DEMAND[k].originId = origin)

\* C11 - Whatever happened before (boarding, looping, resets, mode
\* switches), a full initialization for a mode leaves the same ledger as the
\* first one for that mode: at every origin one waiting group per demand
\* group of the seed, in seed order, with the seeded carloads as count and
\* the assigned block (long) or 99 (regular) as segment; and no step changes
\* the seed.
C11_InitIdempotent ==
    [][/\ demandSeed' = demandSeed
       /\ passBegan'.how \in FullInits =>
            /\ DOMAIN waitingLoads' =
                  {PASSENGER_DEMAND[k].originId : k \in 1..Len(PASSENGER_DEMAND)}
            /\ \A o \in DOMAIN waitingLoads' :
                  LET ks == SeedIndicesOf(o)
                      groups == waitingLoads'[o]
                  IN  /\ Len(groups) = Len(ks)
                      /\ \A j \in 1..Len(ks) :
                            /\ groups[j].destId = PASSENGER_DEMAND[ks[j]].destId
                            /\ groups[j].count = PASSENGER_DEMAND[ks[j]].carloads
                            /\ groups[j].blockId =
                                  IF trainMode' = "regular" THEN 99
                                  ELSE PASSENGER_DEMAND[ks[j]].assignedBlockId
      ]_vars

\* A regular-mode pass that ended with nobody waiting (so after boarding and
\* at least one loop) has just re-seeded the ledger.
C11_Witness ==
    /\ passBegan.how = "regularReset"
    /\ ~passBegan.waiting
    /\ Len(waitingLoads[1]) = 3
    /\ waitingLoads[1][2].count = 3
    /\ waitingLoads[2][2].blockId = 99

\* ---------------------------------------------------------------------- C12
\* The open set a step leaves behind, and the steps in which doors open.
OpenedAfter == {activeBlockIds'[k] : k \in 1..Len(activeBlockIds')}
DoorsOpening == ~doorsOpen /\ doorsOpen'

AnyPlatform ==
    [id : {STATIONS[k].id : k \in 1..Len(STATIONS)},
     alignment : {"rear", "front", "all"},
     positionX : {STATIONS[k].positionX : k \in 1..Len(STATIONS)}]

\* Leading edge flush with the near edge / trailing edge flush with the far
\* edge of the platform, with the long vehicle's length (377).
NearEdgeStop(station) == station.positionX + 1
FarEdgeStop(station) == station.positionX + 263 - 1 - 377

\* C13 (as stated) - In long mode the stop target of a 'rear' or 'all'
\* station is positionX + STATION_PADDING and that of a 'front' station is
\* positionX + STATION_PIXEL_WIDTH - STATION_PADDING - trainEffectiveLength;
\* the long vehicle is docked at the target of its station.
C13_StopTargetRearAll ==
    /\ \A s \in AnyPlatform :
          TargetX("long", s) = IF s.alignment \in {"rear", "all"}
                               THEN NearEdgeStop(s) ELSE FarEdgeStop(s)
    /\ (trainMode = "long" /\ isWaiting) =>
          LET s == StationById(activeStationId)
          IN  trainX = IF s.alignment \in {"rear", "all"}
                       THEN NearEdgeStop(s) ELSE FarEdgeStop(s)

\* C13 (amended) - In long mode the stop target of a 'rear' station is
\* positionX + STATION_PADDING and that of a 'front' or 'all' station is
\* positionX + STATION_PIXEL_WIDTH - STATION_PADDING - trainEffectiveLength;
\* the long vehicle is docked at the target of its station.
C13_StopTarget ==
    /\ \A s \in AnyPlatform :
          TargetX("long", s) = IF s.alignment = "rear"
                               THEN NearEdgeStop(s) ELSE FarEdgeStop(s)
    /\ (trainMode = "long" /\ isWaiting) =>
          LET s == StationById(activeStationId)
          IN  trainX = IF s.alignment = "rear"
                       THEN NearEdgeStop(s) ELSE FarEdgeStop(s)

\* The long vehicle docked at station 4, an 'all' platform, its trailing
\* edge at the far edge of the platform.
C13_Witness ==
    /\ trainMode = "long"
    /\ isWaiting
    /\ activeStationId = 4
    /\ StationById(4).alignment = "all"
    /\ trainX = 1385

\* ---------------------------------------------------------------------- C14
\* The slot range of a segment, written out.
RangeOf(blockId) ==
    IF blockId = 1 THEN 0..2
    ELSE IF blockId = 3 THEN 3..6
    ELSE IF blockId = 2 THEN 7..9
    ELSE IF blockId = 99 THEN 0..6
    ELSE {}

\* The carloads of the first k groups that ride in a segment.
RECURSIVE CountUpTo(_, _, _)
CountUpTo(groups, k, blockId) ==
    IF k = 0 THEN 0
    ELSE (IF groups[k].blockId = blockId THEN groups[k].count ELSE 0)
         + CountUpTo(groups, k - 1, blockId)

EveryoneBoardedMessages == {Msg("Boarding", n) : n \in 0..10}

\* C15 - Whenever a Boarding phase leaves a group of an open segment with a
\* remainder because its segment has no empty slot left, the phase sets a
\* status message and that message is not one a boarding in which everyone
\* boarded sets; the group stays in the ledger.
C15_OverflowSurfaced ==
    [][\A dt \in Deltas :
          LET e == Min(elapsed + dt, ElapsedCap)
              open == {BlocksAfterDoors(e)[k] : k \in 1..Len(BlocksAfterDoors(e))}
              post == GroupsAt(waitingLoads', activeStationId)
              overflow == \E k \in 1..Len(post) :
                             /\ post[k].blockId \in open
                             /\ post[k].count > 0
                             /\ \A i \in RangeOf(post[k].blockId) \cap DOMAIN carOccupancy' :
                                   carOccupancy'[i] # null
          IN  (BoardingFires(e) /\ TickDwell(dt) /\ overflow) =>
                 /\ BoardingSetsMessage(e)
                 /\ BoardingMessage(e) \notin EveryoneBoardedMessages
      ]_vars

\* ---------------------------------------------------------------------- C16
\* The segment that owns a slot of the long vehicle, written out.
OwnerOf(i) == CHOOSE b \in {1, 3, 2} : i \in RangeOf(b)

\* A long vehicle whose every slot holds a passenger for one station.
AllBoundFor(stationId) == [i \in 0..9 |-> [destId |-> stationId, color |-> "any"]]

\* C16 - In long mode an Alighting phase clears exactly the occupied slots
\* whose occupant is destined for the docked station and whose owning segment
\* is open, and leaves every other slot as it was; where the front pair is
\* open, rear passengers for the station stay aboard and mid ones get off.
C16_AlightingResult ==
    [][\A dt \in Deltas :
          LET e == Min(elapsed + dt, ElapsedCap)
              open == {BlocksAfterDoors(e)[k] : k \in 1..Len(BlocksAfterDoors(e))}
              after == OccupancyAfterAlighting(e)
          IN  (trainMode = "long" /\ AlightingFires(e) /\ TickDwell(dt)) =>
                 /\ \A i \in 0..9 :
                       /\ AlightsLong(AllBoundFor(activeStationId), i,
                                      activeStationId, <<2, 3>>) <=> i \in 3..9
                       /\ AlightsLong(AllBoundFor(activeStationId), i,
                                      activeStationId, <<1, 3>>) <=> i \in 0..6
                 /\ \A i \in DOMAIN carOccupancy :
                       after[i] = IF /\ carOccupancy[i] # null
                                     /\ carOccupancy[i].destId = activeStationId
                                     /\ OwnerOf(i) \in open
                                  THEN null
                                  ELSE carOccupancy[i]
                 /\ ~BoardingFires(e) => carOccupancy' = after
                 /\ \A i \in DOMAIN carOccupancy :
                       (carOccupancy[i] # null /\ carOccupancy'[i] = carOccupancy[i])
                       \/ carOccupancy[i] = null
                       \/ (carOccupancy[i].destId = activeStationId /\ OwnerOf(i) \in open)
      ]_vars

\* The long vehicle at station 3 (rear pair open) after alighting, before
\* boarding: the rear group 1->3 and the mid group 2->3 got off, the front
\* group 2->4 and the mid group 1->4 are still aboard.
C16_Witness ==
    /\ trainMode = "long"
    /\ isWaiting
    /\ activeStationId = 3
    /\ alightingProcessed
    /\ ~boardingProcessed
    /\ delivered[2] = 3
    /\ delivered[4] = 2
    /\ \A i \in 0..2 : carOccupancy[i] = null
    /\ \E i \in 3..6 : carOccupancy[i] # null /\ carOccupancy[i].destId = 4
    /\ \A i \in 7..9 : carOccupancy[i] # null /\ carOccupancy[i].destId = 4

\* ---------------------------------------------------------------------- C17
\* A step that is a frame: not a press of play/pause, speed, mode or reset.
FrameStep ==
    /\ isPlaying' = isPlaying
    /\ speedMultiplier' = speedMultiplier
    /\ passBegan'.how \notin {"mode", "reset"}

\* C17 - A frame that starts docked leaves the position alone, docks nowhere
\* and neither completes nor loops the route; a frame that starts undocked
\* leaves the doors and the open set alone, lets nobody alight or board and
\* fires no Departed.
C17_DockedOrMoving ==
    [][FrameStep =>
          /\ isWaiting =>
                /\ trainX' = trainX
                /\ visited' = visited
                /\ activeStationId' \in {activeStationId, NoStation}
                /\ passBegan'.how = ""
                /\ Len(phaseLog') >= Len(phaseLog)
                /\ SubSeq(phaseLog', 1, Len(phaseLog)) = phaseLog
          /\ ~isWaiting =>
                /\ doorsOpen' = doorsOpen
                /\ activeBlockIds' = activeBlockIds
                /\ \A i \in DOMAIN carOccupancy' :
                      \/ carOccupancy'[i] = null
                      \/ (i \in DOMAIN carOccupancy /\ carOccupancy'[i] = carOccupancy[i])
                /\ \A o \in DOMAIN waitingLoads : \A k \in 1..Len(waitingLoads[o]) :
                      \E j \in 1..Len(waitingLoads'[o]) :
                         /\ waitingLoads'[o][j].destId = waitingLoads[o][k].destId
                         /\ waitingLoads'[o][j].count >= waitingLoads[o][k].count
                /\ \A g \in DOMAIN delivered : delivered'[g] <= delivered[g]
                /\ phaseLog' \in {phaseLog, <<>>, <<"Arrived">>}
                /\ lastStationId' \in {lastStationId, NoStation}
      ]_vars

\* The short vehicle docked at station 3, exactly on its stop target, after
\* frames that opened the doors and let passengers alight and board.
C17_Witness ==
    /\ trainMode = "regular"
    /\ isWaiting
    /\ activeStationId = 3
    /\ trainX = 1051
    /\ phaseLog = <<"Arrived", "DoorsOpen", "Alighting", "Boarding">>
    /\ dwellPlayed >= 1800

\* ---------------------------------------------------------------------- C18
\* Seeds with a reference to something that does not exist: the seed of
\* constants.ts with one group assigned to a block 7, or with one group
\* waiting at a station 9.
SeedWithBadBlock == [PASSENGER_DEMAND EXCEPT ![5].assignedBlockId = 7]
SeedWithBadStation == [PASSENGER_DEMAND EXCEPT ![6].originId = 9]

\* The application mounted over such a seed.
InitBadSeed ==
    /\ demandSeed \in {SeedWithBadBlock, SeedWithBadStation}
    /\ Mounted

SpecBadSeed == InitBadSeed /\ [][Next]_vars

StationIds == {STATIONS[k].id : k \in 1..Len(STATIONS)}

\* C18 - Whatever the seed names, no ledger holds a waiting group at a
\* station that is not registered, or whose segment has no slot range in the
\* current mode: initialization dropped (or refused) such a group.
C18_NoInvalidReference ==
    \A o \in DOMAIN waitingLoads : \A k \in 1..Len(waitingLoads[o]) :
        /\ o \in StationIds
        /\ waitingLoads[o][k].destId \in StationIds
        /\ getBlockIndices(waitingLoads[o][k].blockId) # <<>>
        /\ (trainMode = "regular") <=> (waitingLoads[o][k].blockId = 99)

\* ---------------------------------------------------------------------- C19
\* Passengers of a demand group waiting or aboard, before and after a step.
Pending(g) ==
    WaitingIn(waitingLoads, PASSENGER_DEMAND[g].originId, PASSENGER_DEMAND[g].destId)
    + Cardinality(OnboardOf(PASSENGER_DEMAND[g].originId, PASSENGER_DEMAND[g].destId))
PendingAfter(g) ==
    WaitingIn(waitingLoads', PASSENGER_DEMAND[g].originId, PASSENGER_DEMAND[g].destId)
    + Cardinality({i \in DOMAIN carOccupancy' :
         /\ carOccupancy'[i] # null
         /\ carOccupancy'[i].destId = PASSENGER_DEMAND[g].destId
         /\ boardedFrom'[i] = PASSENGER_DEMAND[g].originId})

\* C19 - For every demand group, waiting plus aboard never exceeds the seeded
\* carloads; and except in a step that runs a full initialization, neither
\* that sum nor the waiting count alone grows, whatever the step is (a frame,
\* pause or resume, a speed change, the short-mode loop).  Steps that leave
\* ledger and seats as they are need no look.
C19_DemandNeverGrows ==
    [][<< waitingLoads, carOccupancy, boardedFrom >>' # << waitingLoads, carOccupancy, boardedFrom >>
       => \A g \in 1..Len(PASSENGER_DEMAND) :
          /\ Pending(g) <= PASSENGER_DEMAND[g].carloads
          /\ PendingAfter(g) <= PASSENGER_DEMAND[g].carloads
          /\ passBegan'.how \notin FullInits =>
                /\ PendingAfter(g) <= Pending(g)
                /\ WaitingIn(waitingLoads', PASSENGER_DEMAND[g].originId,
                             PASSENGER_DEMAND[g].destId)
                      <= WaitingIn(waitingLoads, PASSENGER_DEMAND[g].originId,
                                   PASSENGER_DEMAND[g].destId)
      ]_vars

\* Paused in mid-pass at speed 4: one group delivered, another wholly
\* aboard, a third still waiting.
C19_Witness ==
    /\ ~isPlaying
    /\ speedMultiplier = 4
    /\ \E g, h, w \in 1..Len(PASSENGER_DEMAND) :
          /\ delivered[g] = PASSENGER_DEMAND[g].carloads
          /\ Pending(g) = 0
          /\ Cardinality(OnboardOf(PASSENGER_DEMAND[h].originId,
                                   PASSENGER_DEMAND[h].destId))
                = PASSENGER_DEMAND[h].carloads
          /\ WaitingIn(waitingLoads, PASSENGER_DEMAND[w].originId,
                       PASSENGER_DEMAND[w].destId) = PASSENGER_DEMAND[w].carloads

\* ---------------------------------------------------------------------- C20
\* The slot indices a sequence lists.
IndexSet(indices) == {indices[k] : k \in 1..Len(indices)}

\* C20 - In long mode indices 0-2 belong to block 1, 3-6 to block 3 and 7-9
\* to block 2; the index-to-block mapping of alighting and the block-to-range
\* mapping of boarding are inverse to each other, the three ranges are
\* disjoint and cover the ten slots of the vehicle; in short mode the single
\* segment's range is the seven slots of the vehicle.
C20_SegmentPartition ==
    /\ \A i \in 0..9 :
          /\ BlockOfIndex(i) = IF i \in 0..2 THEN 1 ELSE IF i \in 3..6 THEN 3 ELSE 2
          /\ i \in IndexSet(getBlockIndices(BlockOfIndex(i)))
    /\ \A b \in {TRAIN_BLOCKS[k].id : k \in 1..Len(TRAIN_BLOCKS)} :
          \A i \in IndexSet(getBlockIndices(b)) : i \in 0..9 /\ BlockOfIndex(i) = b
    /\ \A b, c \in {1, 3, 2} :
          b # c => IndexSet(getBlockIndices(b)) \cap IndexSet(getBlockIndices(c)) = {}
    /\ IndexSet(getBlockIndices(1)) \cup IndexSet(getBlockIndices(3))
          \cup IndexSet(getBlockIndices(2)) = 0..9
    /\ IndexSet(getBlockIndices(99)) = 0..6
    /\ trainMode = "long" =>
          /\ DOMAIN carOccupancy = 0..9
          /\ \A i \in DOMAIN carOccupancy :
                \E k \in 1..Len(TRAIN_BLOCKS) : TRAIN_BLOCKS[k].id = BlockOfIndex(i)
    /\ trainMode = "regular" =>
          /\ DOMAIN carOccupancy = IndexSet(getBlockIndices(REGULAR_TRAIN_BLOCKS[1].id))
          /\ \A o \in DOMAIN waitingLoads : \A k \in 1..Len(waitingLoads[o]) :
                IndexSet(BlockIndicesFor("regular", waitingLoads[o][k])) = DOMAIN carOccupancy

\* The long vehicle at station 4 after the front group 2->4, which boarded
\* into the range of block 2, got off the slots that map back to block 2.
C20_Witness ==
    /\ trainMode = "long"
    /\ isWaiting
    /\ activeStationId = 4
    /\ delivered[5] = 3
    /\ \A i \in 7..9 : carOccupancy[i] = null /\ BlockOfIndex(i) = 2

\* ---------------------------------------------------------------------- C21
\* C21 - The position stays within the track, from 0 to TRACK_LENGTH, in
\* every reachable state, whatever the frame spacings and speeds were: a
\* candidate position beyond the end of the track is never adopted.
C21_OnTrack ==
    /\ trainX >= 0
    /\ trainX <= 1800

\* The vehicle under way on the last stretch of track, past the stop target
\* of the last station.
C21_Witness ==
    /\ ~isWaiting
    /\ lastStationId = 4
    /\ trainX > 1700
    /\ trainX <= 1800

\* ---------------------------------------------------------------------- C22
\* A ledger is the seed ledger of a mode.
IsSeedLedger(ledger, mode) ==
    /\ DOMAIN ledger = {PASSENGER_DEMAND[k].originId : k \in 1..Len(PASSENGER_DEMAND)}
    /\ \A o \in DOMAIN ledger :
          /\ Len(ledger[o]) = Len(SeedIndicesOf(o))
          /\ \A j \in 1..Len(ledger[o]) :
                LET demand == PASSENGER_DEMAND[SeedIndicesOf(o)[j]]
                IN  /\ ledger[o][j].destId = demand.destId
                    /\ ledger[o][j].count = demand.carloads
                    /\ ledger[o][j].blockId =
                          IF mode = "regular" THEN 99 ELSE demand.assignedBlockId

\* C22 - Reset, from whatever state, leaves the simulation paused at
\* position 0, undocked, doors closed, no open segment, no last-departed
\* station, every seat empty and the ledger equal to the seed ledger of the
\* mode; speed and mode are as they were.
C22_ResetToInitial ==
    [][passBegan'.how = "reset" =>
          /\ ~isPlaying'
          /\ trainX' = 0
          /\ ~isWaiting'
          /\ activeStationId' = NoStation
          /\ ~doorsOpen'
          /\ activeBlockIds' = <<>>
          /\ lastStationId' = NoStation
          /\ DOMAIN carOccupancy' = 0..((IF trainMode = "regular" THEN 7 ELSE 10) - 1)
          /\ \A i \in DOMAIN carOccupancy' : carOccupancy'[i] = null
          /\ IsSeedLedger(waitingLoads', trainMode)
          /\ speedMultiplier' = speedMultiplier
          /\ trainMode' = trainMode]_vars

\* Reset was pressed at speed 2 while the short vehicle was docked with
\* doors open and passengers aboard.
C22_Witness ==
    /\ passBegan.how = "reset"
    /\ passBegan.docked
    /\ passBegan.doors
    /\ passBegan.aboard > 0
    /\ trainMode = "regular"
    /\ speedMultiplier = 2
    /\ ~isPlaying

\* ---------------------------------------------------------------------- C23
\* C23 - Every dwell threshold is scaled by the speed factor s: in a dwell
\* frame at dwell time t, DoorsOpen takes effect only if t > 500/s, Alighting
\* only if t > 1000/s, Boarding only if t > 1500/s, the doors are closed
\* exactly from t > 3000/s on, and the vehicle departs exactly when
\* t > (3000 + 1000)/s.
C23_ThresholdsScale ==
    [][\A dt \in Deltas :
          LET t == Min(elapsed + dt, ElapsedCap)
              s == speedMultiplier
          IN  (isWaiting /\ isPlaying /\ TickDwell(dt)) =>
                 /\ DoorsOpening => t * s > 500
                 /\ (alightingProcessed' /\ ~alightingProcessed) => t * s > 1000
                 /\ (boardingProcessed' /\ ~boardingProcessed) => t * s > 1500
                 /\ (doorsOpen /\ ~doorsOpen') => t * s > 3000
                 /\ t * s > 3000 => ~doorsOpen'
                 /\ ~isWaiting' <=> t * s > 3000 + 1000
      ]_vars

\* ---------------------------------------------------------------------- C24
\* C24 - Within one stop, whatever speed changes are made during the dwell,
\* no phase takes effect twice, and once DoorsClosing has taken effect the
\* doors do not open again.
C24_NoReentry ==
    \A i, j \in 1..Len(phaseLog) :
        i < j =>
           /\ phaseLog[i] # phaseLog[j]
           /\ ~(phaseLog[i] = "DoorsClosing" /\ phaseLog[j] = "DoorsOpen")

\* ---------------------------------------------------------------------- C25
\* C25 - Whenever the doors are closed, no segment is listed as open; in
\* particular not between DoorsClosing and Departed.
C25_ClosedMeansNoneOpen ==
    ~doorsOpen => activeBlockIds = <<>>

\* ---------------------------------------------------------------------- C26
\* C26 - While the vehicle is docked no station is marked as last departed;
\* the marker is set only when Departed fires, to the station that was
\* docked, which then stops being the docked station.
C26_DockClearsLastDeparted ==
    [][/\ isWaiting' => lastStationId' = NoStation
       /\ (lastStationId' # lastStationId /\ lastStationId' # NoStation) =>
             /\ isWaiting
             /\ ~isWaiting'
             /\ lastStationId' = activeStationId
             /\ activeStationId' = NoStation]_vars

\* ---------------------------------------------------------------------- C27
\* C27 - In a frame that starts docked at most one of DoorsOpen, Alighting,
\* Boarding, DoorsClosing, Departed takes effect, however late the frame is.
C27_OnePhasePerTick ==
    [][(FrameStep /\ isWaiting) => Len(phaseLog') <= Len(phaseLog) + 1]_vars

\* ---------------------------------------------------------------------- C28
\* C28 - A frame of a paused simulation leaves position, docked station,
\* doors, open set, seats, ledger, last-departed station and the two
\* processed flags as they are, docked or not; and a frame of a playing
\* simulation never carries the vehicle further than its own spacing allows,
\* so time that went by while paused is not made up for.
C28_PausedTickInert ==
    [][/\ (FrameStep /\ ~isPlaying) =>
             /\ trainX' = trainX
             /\ isWaiting' = isWaiting
             /\ activeStationId' = activeStationId
             /\ doorsOpen' = doorsOpen
             /\ activeBlockIds' = activeBlockIds
             /\ carOccupancy' = carOccupancy
             /\ waitingLoads' = waitingLoads
             /\ lastStationId' = lastStationId
             /\ alightingProcessed' = alightingProcessed
             /\ boardingProcessed' = boardingProcessed
       /\ (FrameStep /\ isPlaying /\ trainX' > trainX) =>
             \E dt \in Deltas : trainX' <= trainX + (dt \div 10) * speedMultiplier
      ]_vars

\* Paused while docked with doors open and passengers aboard, after frames
\* went by in the pause.
C28_Witness ==
    /\ ~isPlaying
    /\ isWaiting
    /\ doorsOpen
    /\ elapsed > dwellPlayed
    /\ \E i \in DOMAIN carOccupancy : carOccupancy[i] # null

\* ---------------------------------------------------------------------- C29
\* C29 - Every group in the ledger has a count of at least 1, so that the
\* loop test of short mode (some station has a non-empty group list) is
\* true exactly when some passenger is still waiting.
C29_NoEmptyGroups ==
    /\ \A o \in DOMAIN waitingLoads : \A k \in 1..Len(waitingLoads[o]) :
          waitingLoads[o][k].count >= 1
    /\ hasWaiting <=>
          \E g \in 1..Len(PASSENGER_DEMAND) :
             WaitingIn(waitingLoads, PASSENGER_DEMAND[g].originId,
                       PASSENGER_DEMAND[g].destId) > 0

\* The long vehicle at station 1 after boarding: all three groups of the
\* station boarded whole and are gone from the ledger, others still wait.
C29_Witness ==
    /\ trainMode = "long"
    /\ isWaiting
    /\ activeStationId = 1
    /\ boardingProcessed
    /\ waitingLoads[1] = <<>>
    /\ Cardinality({i \in DOMAIN carOccupancy : carOccupancy[i] # null}) = 7
    /\ hasWaiting

\* ---------------------------------------------------------------------- C30
\* C30 - A Boarding phase never lowers the count of a group record that a
\* snapshot handed to the renderer earlier also holds: whenever the ledger's
\* records are the published ones, a Boarding that takes anyone aboard would
\* have to work on fresh records, which the engine has none of.
C30_SnapshotsImmutable ==
    [][\A dt \in Deltas :
          LET e == Min(elapsed + dt, ElapsedCap)
          IN  (BoardingFires(e) /\ ledgerPublished /\ TickDwell(dt)) =>
                 BoardingResult(e).boardedTotal = 0]_vars

\* ---------------------------------------------------------------------- C31
\* C31 - The vehicle is docked exactly when a docked station is recorded;
\* open doors imply a docked vehicle with a non-empty open set; a non-empty
\* open set implies a docked vehicle; and the frame that docks the vehicle
\* leaves it with closed doors and an empty open set.
C31_DockingFlags ==
    [][/\ isWaiting' <=> activeStationId' # NoStation
       /\ doorsOpen' => isWaiting' /\ activeBlockIds' # <<>>
       /\ activeBlockIds' # <<>> => isWaiting'
       /\ (isWaiting' /\ ~isWaiting) => ~doorsOpen' /\ activeBlockIds' = <<>>]_vars

\* Docked at station 2 before any dwell block has run there, after the
\* dwell at station 1 had its doors and blocks open.
C31_Witness ==
    /\ isWaiting
    /\ activeStationId = 2
    /\ lastStationId = 1
    /\ phaseLog = <<"Arrived">>
    /\ ~doorsOpen
    /\ activeBlockIds = <<>>
    /\ \E i \in DOMAIN carOccupancy : carOccupancy[i] # null

\* ---------------------------------------------------------------------- C32
PlacesOf(phase) == {k \in 1..Len(phaseLog) : phaseLog[k] = phase}

\* C32 - At every stop, at any speed (changed during the dwell or not) and
\* for any frame spacing, the Alighting pass and the Boarding pass each run
\* at most once, Alighting runs before Boarding, and both have run when
\* Departed takes effect.
C32_AlightBoardDepart ==
    /\ Cardinality(PlacesOf("Alighting")) <= 1
    /\ Cardinality(PlacesOf("Boarding")) <= 1
    /\ \A b \in PlacesOf("Boarding") : \E a \in PlacesOf("Alighting") : a < b
    /\ \A d \in PlacesOf("Departed") : \E b \in PlacesOf("Boarding") : b < d

\* The short vehicle left station 1 full; at station 2 two seats were freed
\* by Alighting and taken by boarders of station 2 in the same stop, at a
\* speed that was changed during the dwell, and the vehicle has departed.
C32_Witness ==
    /\ trainMode = "regular"
    /\ lastStationId = 2
    /\ ~isWaiting
    /\ ~dwellSpeedFixed
    /\ PlacesOf("Departed") # {}
    /\ Cardinality({i \in DOMAIN boardedFrom : boardedFrom[i] = 1}) = 5
    /\ Cardinality({i \in DOMAIN boardedFrom : boardedFrom[i] = 2}) = 2

\* ---------------------------------------------------------------------- C33
\* The colour of a segment of the long vehicle.
ColorOfBlock(blockId) ==
    TRAIN_BLOCKS[CHOOSE k \in 1..Len(TRAIN_BLOCKS) : TRAIN_BLOCKS[k].id = blockId].color

\* C33 - The seat array has the mode's capacity, 10 slots long and 7 short;
\* in long mode every occupied slot holds a passenger tagged with the colour
\* of the segment that owns the slot, who boarded from a group assigned to
\* that segment.
C33_OwnSegmentOnly ==
    /\ DOMAIN carOccupancy = (IF trainMode = "long" THEN 0..9 ELSE 0..6)
    /\ trainMode = "long" =>
          \A i \in DOMAIN carOccupancy :
             carOccupancy[i] # null =>
                /\ carOccupancy[i].color = ColorOfBlock(OwnerOf(i))
                /\ demandSeed[DemandIndex(boardedFrom[i], carOccupancy[i].destId)].assignedBlockId
                      = OwnerOf(i)

\* The long vehicle with passengers in all three segments: block 1 and
\* block 3 filled at station 1, block 2 at station 2.
C33_Witness ==
    /\ trainMode = "long"
    /\ carOccupancy[0] # null /\ boardedFrom[0] = 1
    /\ carOccupancy[3] # null
    /\ carOccupancy[7] # null /\ boardedFrom[7] = 2

\* ---------------------------------------------------------------------- C34
\* The slots the groups of the docked station may board into in a frame
\* whose dwell time is e: the ranges of the groups that are let aboard.
BoardableSlots(e) ==
    LET groups == GroupsAt(waitingLoads, activeStationId)
        open == {BlocksAfterDoors(e)[k] : k \in 1..Len(BlocksAfterDoors(e))}
    IN  UNION {IF trainMode = "regular"
               THEN (IF groups[k].blockId = 99 THEN 0..6 ELSE {})
               ELSE (IF groups[k].blockId \in open THEN RangeOf(groups[k].blockId) ELSE {})
               : k \in 1..Len(groups)}

\* C34 - A Boarding phase changes no slot that was occupied when it began
\* and no slot outside the ranges of the groups it boards, and of the ledger
\* only the docked station's entry; an Alighting phase leaves the ledger as
\* it is and changes no slot whose occupant is bound elsewhere.
C34_BoardAlightFrames ==
    [][\A dt \in Deltas :
          LET e == Min(elapsed + dt, ElapsedCap)
              before == OccupancyAfterAlighting(e)
          IN  /\ (BoardingFires(e) /\ TickDwell(dt)) =>
                    /\ \A i \in DOMAIN carOccupancy :
                          /\ before[i] # null => carOccupancy'[i] = before[i]
                          /\ (~AlightingFires(e) /\ carOccupancy[i] # null) =>
                                carOccupancy'[i] = carOccupancy[i]
                          /\ carOccupancy'[i] # before[i] => i \in BoardableSlots(e)
                    /\ \A o \in DOMAIN waitingLoads \ {activeStationId} :
                          /\ o \in DOMAIN waitingLoads'
                          /\ waitingLoads'[o] = waitingLoads[o]
                    /\ DOMAIN waitingLoads' \subseteq DOMAIN waitingLoads \cup {activeStationId}
              /\ (AlightingFires(e) /\ TickDwell(dt)) =>
                    /\ ~BoardingFires(e) => waitingLoads' = waitingLoads
                    /\ \A i \in DOMAIN carOccupancy :
                          (carOccupancy[i] # null /\ carOccupancy[i].destId # activeStationId) =>
                             carOccupancy'[i] = carOccupancy[i]]_vars

\* After a Boarding at station 2 that met passengers already seated: riders
\* from station 1 still aboard next to riders who boarded here, and station 3
\* still has its groups in the ledger.
C34_Witness ==
    /\ isWaiting
    /\ activeStationId = 2
    /\ boardingProcessed
    /\ \E i \in DOMAIN carOccupancy : carOccupancy[i] # null /\ boardedFrom[i] = 1
    /\ \E i \in DOMAIN carOccupancy : carOccupancy[i] # null /\ boardedFrom[i] = 2
    /\ GroupsAt(waitingLoads, 3) # <<>>

\* ---------------------------------------------------------------------- C35
\* The blocks the long vehicle opens at a station.
OpenedAt(stationId) ==
    {DoorBlocks("long", StationById(stationId))[k] :
        k \in 1..Len(DoorBlocks("long", StationById(stationId)))}

Started(m, s) ==
    /\ trainX = 0
    /\ isPlaying = TRUE
    /\ speedMultiplier = s
    /\ isWaiting = FALSE
    /\ elapsed = 0
    /\ lastStationId = NoStation
    /\ boardingProcessed = FALSE
    /\ alightingProcessed = FALSE
    /\ trainMode = m
    /\ waitingLoads = SeedLedger(m)
    /\ ledgerPublished = PublishedAfterInit(FALSE)
    /\ carOccupancy = EmptyOccupancy(m)
    /\ activeStationId = NoStation
    /\ doorsOpen = FALSE
    /\ activeBlockIds = <<>>
    /\ message = Msg("Ready to start.", 0)
    /\ boardedFrom = [i \in DOMAIN EmptyOccupancy(m) |-> NoStation]
    /\ delivered = NoneDelivered
    /\ visited = <<>>
    /\ phaseLog = <<>>
    /\ dwellPlayed = 0
    /\ dwellSpeedFixed = TRUE
    /\ passBegan = NotBegun

InitSteady ==
    /\ demandSeed = PASSENGER_DEMAND
    /\ \E m \in Modes, s \in Speeds : Started(m, s)

\* A frame of a docked vehicle that does not jump over the window in which
\* the doors can open: the doors have opened at this stop, or the frame
\* comes before the window ends.
TickDwellTimely(dt) ==
    /\ activeBlockIds # <<>> \/ elapsed + dt < waitDuration
    /\ TickDwell(dt)

\* Frames only: nobody touches the control bar.
NextSteady ==
    \/ \E dt \in Deltas : TickDwellTimely(dt)
    \/ \E dt \in Deltas : TickDock(dt)
    \/ \E dt \in Deltas : TickAdvance(dt)
    \/ \E dt \in Deltas : TickRouteComplete(dt)
    \/ \E dt \in Deltas : TickLoop(dt)
    \/ \E dt \in Deltas : TickRegularReset(dt)

SpecSteady == InitSteady /\ [][NextSteady]_vars

\* ---------------------------------------------------------------------- C36
\* C36 - Long mode, played without interruption at a fixed speed with every
\* stop getting a frame inside its door window: when the route completes
\* nobody waits at any station and every seat is empty, every group of the
\* seed having been delivered whole, so the full reset discards nobody.
C36_LongDeliversAll ==
    [][(RouteEndFrame /\ trainMode = "long") =>
          /\ \A o \in DOMAIN waitingLoads : waitingLoads[o] = <<>>
          /\ \A i \in DOMAIN carOccupancy : carOccupancy[i] = null
          /\ \A g \in 1..Len(demandSeed) : delivered[g] = demandSeed[g].carloads
          /\ waitingLoads' = SeedLedger("long")]_vars

\* The long vehicle past station 4 with the whole seed delivered.
C36_Witness ==
    /\ trainMode = "long"
    /\ ~isWaiting
    /\ lastStationId = 4
    /\ visited = <<1, 2, 3, 4>>
    /\ \A g \in 1..Len(demandSeed) : delivered[g] = demandSeed[g].carloads
    /\ \A i \in DOMAIN carOccupancy : carOccupancy[i] = null
    /\ ~hasWaiting

\* ---------------------------------------------------------------------- C37
\* The ledger holds nothing but the group 2 -> 4 with its three carloads.
OnlyLeftover ==
    /\ \A o \in DOMAIN waitingLoads \ {2} : waitingLoads[o] = <<>>
    /\ 2 \in DOMAIN waitingLoads
    /\ Len(waitingLoads[2]) = 1
    /\ waitingLoads[2][1].destId = 4
    /\ waitingLoads[2][1].count = 3

PlayingFrame ==
    \E dt \in Deltas :
       \/ TickDwell(dt)
       \/ TickDock(dt)
       \/ TickAdvance(dt)
       \/ TickRouteComplete(dt)
       \/ TickLoop(dt)
       \/ TickRegularReset(dt)

\* The simulation stays playing: frames, and speed changes at any moment;
\* no pause, reset or mode change.
NextPlaying ==
    \/ \E s \in Speeds : SetSpeed(s)
    \/ \E dt \in Deltas : TickDwell(dt)
    \/ \E dt \in Deltas : TickDock(dt)
    \/ \E dt \in Deltas : TickAdvance(dt)
    \/ \E dt \in Deltas : TickRouteComplete(dt)
    \/ \E dt \in Deltas : TickLoop(dt)
    \/ \E dt \in Deltas : TickRegularReset(dt)

\* animate ends with requestRef.current = requestAnimationFrame(animate):
\* while the page is shown, another frame always comes.
SpecPlaying == InitSteady /\ [][NextPlaying]_vars /\ WF_vars(PlayingFrame)

\* ---------------------------------------------------------------------- C38
\* C38 - While the simulation stays playing and frames keep coming, a
\* vehicle docked at a station eventually departs from that station, and
\* again and again a pass ends in a route completion: a playing vehicle is
\* never stuck at a platform or between two stations.
C38_Progress ==
    /\ \A s \in StationIds :
          (isWaiting /\ activeStationId = s) ~> (~isWaiting /\ lastStationId = s)
    /\ []<>(passBegan.how \in {"complete", "loop", "regularReset"})

\* A vehicle that left station 4 after a dwell during which the speed was
\* changed, still playing.
C38_Witness ==
    /\ isPlaying
    /\ ~isWaiting
    /\ lastStationId = 4
    /\ ~dwellSpeedFixed
    /\ PlacesOf("Departed") # {}

\* ---------------------------------------------------------------------- C39
\* Train.tsx lays the blocks out from the vehicle's x in list order, each
\* followed by a coupler: the offset of the k-th block's left edge.
RECURSIVE BlockLeft(_)
BlockLeft(k) ==
    IF k = 1 THEN 0
    ELSE BlockLeft(k - 1) + getBlockWidth(TRAIN_BLOCKS[k - 1].capacity) + TRAIN_COUPLER_GAP

\* C39 - In both modes the four stop targets lie on the track and increase
\* strictly in station order; and wherever the long vehicle is docked, each
\* block the engine opens at that station lies wholly within the platform,
\* from positionX to positionX + STATION_PIXEL_WIDTH, and each block it
\* keeps closed lies wholly outside it.
C39_StopGeometry ==
    /\ \A mode \in Modes : \A k \in 1..Len(STATIONS) :
          /\ TargetX(mode, STATIONS[k]) >= 0
          /\ TargetX(mode, STATIONS[k]) <= TRACK_LENGTH
          /\ k > 1 => TargetX(mode, STATIONS[k - 1]) < TargetX(mode, STATIONS[k])
    /\ (isWaiting /\ trainMode = "long") =>
          LET station == StationById(activeStationId)
              platformEnd == station.positionX + STATION_PIXEL_WIDTH
          IN  \A k \in 1..Len(TRAIN_BLOCKS) :
                 LET lo == trainX + BlockLeft(k)
                     hi == lo + getBlockWidth(TRAIN_BLOCKS[k].capacity)
                 IN  IF Includes(DoorBlocks("long", station), TRAIN_BLOCKS[k].id)
                     THEN station.positionX <= lo /\ hi <= platformEnd
                     ELSE hi < station.positionX \/ lo > platformEnd

\* The long vehicle docked right-aligned at station 2 with blocks 2 and 3
\* open, its block 1 short of the platform.
C39_Witness ==
    /\ trainMode = "long"
    /\ isWaiting
    /\ activeStationId = 2
    /\ doorsOpen
    /\ activeBlockIds = <<2, 3>>
    /\ trainX + BlockLeft(2) = StationById(2).positionX + STATION_PADDING

====
